---- MODULE Spec2Model ----
(***************************************************************************)
(* A model of pkg/appsettings/load.go: the layered configuration loader    *)
(* AppSettings[T] (setters, Load and its stages, value inference and the   *)
(* projection of the merged map into the schema type).                     *)
(*                                                                         *)
(* Go strings are modelled as sequences of one-character strings, so that  *)
(* prefix tests, splitting, case folding, parsing and byte-order sorting   *)
(* are computed character by character as the library routines do.         *)
(***************************************************************************)
EXTENDS Integers, Sequences, FiniteSets, TLC

VARIABLES
    withArgs,             \* AppSettings.withArgs: None or Some sequence of strings
    withEnvVars,          \* AppSettings.withEnvVars: None or Some sequence of strings
    withEnvironment,      \* AppSettings.withEnvironment: None or Some string
    withConfigDirectory,  \* AppSettings.withConfigDirectory: None or Some string
    fs,                   \* the file system: path -> file state
    pc,                   \* position of the running call
    configDir,            \* Load's local configDir (None before it is resolved)
    configMap,            \* the overlay map[string]interface{}
    result,               \* the returned *T (None when nil)
    err,                  \* the returned error (None when nil)
    reads,                \* the paths handed to os.ReadFile by the running Load
    input,                \* argument of a direct call of parseValue
    output                \* value returned by a direct call of parseValue

vars == <<withArgs, withEnvVars, withEnvironment, withConfigDirectory, fs,
          pc, configDir, configMap, result, err, reads, input, output>>

\* A nil error code inside the helpers below (error codes are strings).
Nil == "nil"

\* A nil pointer, slice or error, and a non-nil one holding v.
None == [nil |-> TRUE]
Some(v) == [nil |-> FALSE, v |-> v]

-----------------------------------------------------------------------------
(* Characters and strings                                                  *)

\* The printable ASCII characters in code order, starting at code 32 (the
\* grave accent, code 96, is written <96>: it occurs in no string of the model).
Printable ==
    <<" ", "!", "\"", "#", "$", "%", "&", "'", "(", ")", "*", "+", ",", "-", ".", "/",
      "0", "1", "2", "3", "4", "5", "6", "7", "8", "9", ":", ";", "<", "=", ">", "?",
      "@", "A", "B", "C", "D", "E", "F", "G", "H", "I", "J", "K", "L", "M", "N", "O",
      "P", "Q", "R", "S", "T", "U", "V", "W", "X", "Y", "Z", "[", "\\", "]", "^", "_",
      "<96>", "a", "b", "c", "d", "e", "f", "g", "h", "i", "j", "k", "l", "m", "n", "o",
      "p", "q", "r", "s", "t", "u", "v", "w", "x", "y", "z", "{", "|", "}", "~">>

\* The byte value of every character.
OrdTable ==
    [c \in {Printable[i] : i \in 1..Len(Printable)} |->
        31 + CHOOSE i \in 1..Len(Printable) : Printable[i] = c]

\* The byte value of a character.
Ord(c) == OrdTable[c]

Chr(n) == Printable[n - 31]

IsDigit(c) == Ord(c) >= 48 /\ Ord(c) <= 57

DigitVal(c) == Ord(c) - 48

IsUpper(c) == Ord(c) >= 65 /\ Ord(c) <= 90

IsLower(c) == Ord(c) >= 97 /\ Ord(c) <= 122

\* strings.ToLower on ASCII: A..Z move to a..z, every other byte stays.
LowerChar(c) == IF IsUpper(c) THEN Chr(Ord(c) + 32) ELSE c

UpperChar(c) == IF IsLower(c) THEN Chr(Ord(c) - 32) ELSE c

ToLower(s) == [i \in 1..Len(s) |-> LowerChar(s[i])]

\* strings.HasPrefix(s, p)
HasPrefix(s, p) == Len(s) >= Len(p) /\ SubSeq(s, 1, Len(p)) = p

\* strings.TrimPrefix(s, p)
TrimPrefix(s, p) == IF HasPrefix(s, p) THEN SubSeq(s, Len(p) + 1, Len(s)) ELSE s

\* Byte-wise s < t, the order sort.Strings and encoding/json use for map keys.
RECURSIVE StrLess(_, _)
StrLess(s, t) ==
    IF t = <<>> THEN FALSE
    ELSE IF s = <<>> THEN TRUE
    ELSE IF Ord(s[1]) # Ord(t[1]) THEN Ord(s[1]) < Ord(t[1])
    ELSE StrLess(Tail(s), Tail(t))

-----------------------------------------------------------------------------
(* Go values held in an interface{}                                        *)

BoolV(b) == [t |-> "bool", b |-> b]

IntV(i) == [t |-> "int", i |-> i]

\* A finite float64 is kept as the decimal m * 10^e, normalised so that m has
\* no trailing zero (and zero is m = 0, e = 0).
RECURSIVE NormDec(_, _)
NormDec(m, e) ==
    IF m = 0 THEN [m |-> 0, e |-> 0]
    ELSE IF m % 10 = 0 THEN NormDec(m \div 10, e + 1)
    ELSE [m |-> m, e |-> e]

FloatV(m, e) == LET d == NormDec(m, e) IN [t |-> "float", m |-> d.m, e |-> d.e]

\* math.NaN(), math.Inf(1), math.Inf(-1)
SpecialV(n) == [t |-> "float", special |-> n]

StrV(s) == [t |-> "string", s |-> s]

IsFinite(v) == v.t = "float" /\ "m" \in DOMAIN v

-----------------------------------------------------------------------------
(* strconv: ParseBool, Atoi, ParseFloat                                    *)

Fail == [ok |-> FALSE]

TrueLiterals ==
    {<<"1">>, <<"t">>, <<"T">>, <<"T", "R", "U", "E">>, <<"t", "r", "u", "e">>,
     <<"T", "r", "u", "e">>}

FalseLiterals ==
    {<<"0">>, <<"f">>, <<"F">>, <<"F", "A", "L", "S", "E">>,
     <<"f", "a", "l", "s", "e">>, <<"F", "a", "l", "s", "e">>}

\* strconv.ParseBool: exactly these twelve spellings are accepted.
ParseBool(s) ==
    IF s \in TrueLiterals THEN [ok |-> TRUE, b |-> TRUE]
    ELSE IF s \in FalseLiterals THEN [ok |-> TRUE, b |-> FALSE]
    ELSE Fail

IsSign(c) == c = "+" \/ c = "-"

\* The first index j >= i of s that holds no digit (Len(s) + 1 if there is none).
RECURSIVE SkipDigits(_, _)
SkipDigits(s, i) ==
    IF i <= Len(s) /\ IsDigit(s[i]) THEN SkipDigits(s, i + 1) ELSE i

\* The number written by the digits s[i..j-1], accumulated left to right.
RECURSIVE DigitsToInt(_, _, _, _)
DigitsToInt(s, i, j, acc) ==
    IF i >= j THEN acc ELSE DigitsToInt(s, i + 1, j, acc * 10 + DigitVal(s[i]))

RECURSIVE Pow10(_)
Pow10(n) == IF n <= 0 THEN 1 ELSE 10 * Pow10(n - 1)

RECURSIVE NumDigits(_)
NumDigits(n) == IF n < 10 THEN 1 ELSE 1 + NumDigits(n \div 10)

Abs(n) == IF n < 0 THEN -n ELSE n

\* The longest decimal string strconv.Atoi takes without a range error is 19
\* digits (int is 64 bits wide); every string of the model is far shorter.
MaxIntDigits == 18

\* strconv.Atoi: an optional sign, then one or more digits and nothing else.
Atoi(s) ==
    LET i0 == IF s # <<>> /\ IsSign(s[1]) THEN 2 ELSE 1
        i1 == SkipDigits(s, i0)
    IN  IF i1 > i0 /\ i1 = Len(s) + 1 /\ i1 - i0 <= MaxIntDigits
        THEN [ok |-> TRUE,
              i  |-> IF s[1] = "-" THEN -DigitsToInt(s, i0, i1, 0)
                     ELSE DigitsToInt(s, i0, i1, 0)]
        ELSE Fail

sInf == <<"i", "n", "f">>
sInfinity == <<"i", "n", "f", "i", "n", "i", "t", "y">>
sNaN == <<"n", "a", "n">>

\* strconv's special(): "inf"/"infinity" with an optional sign and "nan" without
\* one, in any letter case.
Special(s) ==
    IF s = <<>> THEN Fail
    ELSE IF IsSign(s[1])
    THEN IF ToLower(Tail(s)) \in {sInf, sInfinity}
         THEN [ok |-> TRUE, v |-> SpecialV(IF s[1] = "-" THEN "-Inf" ELSE "+Inf")]
         ELSE Fail
    ELSE IF ToLower(s) \in {sInf, sInfinity} THEN [ok |-> TRUE, v |-> SpecialV("+Inf")]
    ELSE IF ToLower(s) = sNaN THEN [ok |-> TRUE, v |-> SpecialV("NaN")]
    ELSE Fail

\* The largest decimal exponent position of a finite float64 (1.797...e308) and
\* the smallest of a value that does not round to zero (4.9...e-324).
MaxFloatPos == 309
MinFloatPos == -323

\* The first three digits of m (m >= 1), padded with zeros on the right.
LeadDigits(m) ==
    IF NumDigits(m) >= 3 THEN m \div Pow10(NumDigits(m) - 3)
    ELSE m * Pow10(3 - NumDigits(m))

\* The value of the scanned literal: integer digits s[i0..i1), fraction digits
\* s[f0..f1), exponent digits s[x0..x1) when ex.
FloatOf(s, i0, i1, f0, f1, ex, x0, x1) ==
    LET n    == Len(s)
        xneg == ex /\ f1 + 1 <= n /\ s[f1 + 1] = "-"
        mant == DigitsToInt(s, i0, i1, 0) * Pow10(f1 - f0) + DigitsToInt(s, f0, f1, 0)
        e10  == IF ~ex THEN 0
                ELSE IF xneg THEN -DigitsToInt(s, x0, x1, 0)
                ELSE DigitsToInt(s, x0, x1, 0)
        d    == NormDec(mant, e10 - (f1 - f0))
        pos  == NumDigits(d.m) + d.e
    IN  IF (i1 - i0) + (f1 - f0) = 0 \/ (ex /\ x1 = x0) \/ (IF ex THEN x1 ELSE f1) # n + 1
        THEN Fail
        ELSE IF d.m # 0 /\ (pos > MaxFloatPos \/ (pos = MaxFloatPos /\ LeadDigits(d.m) >= 180))
        THEN Fail
        ELSE IF d.m # 0 /\ pos < MinFloatPos THEN [ok |-> TRUE, v |-> FloatV(0, 0)]
        ELSE [ok |-> TRUE, v |-> FloatV(IF s[1] = "-" THEN -d.m ELSE d.m, d.e)]

\* The optional exponent after the fraction digits: e or E, an optional sign,
\* digits.
ReadExponent(s, i0, i1, f0, f1) ==
    LET ex == f1 <= Len(s) /\ LowerChar(s[f1]) = "e"
        x0 == IF ex /\ f1 + 1 <= Len(s) /\ IsSign(s[f1 + 1]) THEN f1 + 2 ELSE f1 + 1
    IN  FloatOf(s, i0, i1, f0, f1, ex, x0, SkipDigits(s, x0))

\* The optional point and fraction digits after the integer digits.
ReadFraction(s, i0, i1) ==
    LET f0 == IF i1 <= Len(s) /\ s[i1] = "." THEN i1 + 1 ELSE i1
    IN  ReadExponent(s, i0, i1, f0, SkipDigits(s, f0))

\* strconv.ParseFloat(s, 64) on decimal input: sign, digits with at most one
\* point and at least one digit, optional exponent; the whole string must be
\* consumed. A value beyond the float64 range is a range error. Hexadecimal
\* mantissas and digit-separating underscores are left out: no value string of
\* the model holds an x or an underscore.
ParseFloat(s) ==
    LET sp == Special(s)
        i0 == IF s # <<>> /\ IsSign(s[1]) THEN 2 ELSE 1
    IN  IF sp.ok THEN sp ELSE ReadFraction(s, i0, SkipDigits(s, i0))

-----------------------------------------------------------------------------
(* parseValue                                                              *)

\* parseValue with the integer attempt moved before the boolean attempt.
parseValueIntFirst(value) ==
    IF Atoi(value).ok THEN IntV(Atoi(value).i)
    ELSE IF ParseBool(value).ok THEN BoolV(ParseBool(value).b)
    ELSE IF ParseFloat(value).ok THEN ParseFloat(value).v
    ELSE StrV(value)

\* parseValue with the boolean attempt folding letter case first.
parseValueFoldBool(value) ==
    IF ParseBool(ToLower(value)).ok THEN BoolV(ParseBool(ToLower(value)).b)
    ELSE IF Atoi(value).ok THEN IntV(Atoi(value).i)
    ELSE IF ParseFloat(value).ok THEN ParseFloat(value).v
    ELSE StrV(value)

\* parseValue: bool, then int, then float64, else the string itself.
parseValue(value) ==
    LET boolVal == ParseBool(value)
        intVal == Atoi(value)
        floatVal == ParseFloat(value)
    IN  IF boolVal.ok THEN BoolV(boolVal.b)
        ELSE IF intVal.ok THEN IntV(intVal.i)
        ELSE IF floatVal.ok THEN floatVal.v
        ELSE StrV(value)

-----------------------------------------------------------------------------
(* map[string]interface{}                                                  *)

\* make(map[string]interface{})
EmptyMap == <<>>

\* configMap[key] = value
MapSet(m, key, value) ==
    [k \in DOMAIN m \cup {key} |-> IF k = key THEN value ELSE m[k]]

-----------------------------------------------------------------------------
(* loadEnvVars and loadArgs                                                *)

\* strings.Index(s, "="): the first index holding "=", 0 if there is none.
RECURSIVE IndexEq(_, _)
IndexEq(s, i) ==
    IF i > Len(s) THEN 0 ELSE IF s[i] = "=" THEN i ELSE IndexEq(s, i + 1)

\* strings.SplitN(envVar, "=", 2)
SplitN2(s) ==
    LET i == IndexEq(s, 1)
    IN  IF i = 0 THEN <<s>> ELSE <<SubSeq(s, 1, i - 1), SubSeq(s, i + 1, Len(s))>>

\* loadEnvVars's loop body with the case folding of the key left out.
EnvVarStepNoFold(envVar, m) ==
    LET parts == SplitN2(envVar)
    IN  IF Len(parts) # 2 THEN m ELSE MapSet(m, parts[1], parseValue(parts[2]))

\* The body of loadEnvVars's loop for one entry.
EnvVarStep(envVar, m) ==
    LET parts == SplitN2(envVar)
    IN  IF Len(parts) # 2 THEN m
        ELSE MapSet(m, ToLower(parts[1]), parseValue(parts[2]))

RECURSIVE EnvVarLoop(_, _, _)
EnvVarLoop(envVars, i, m) ==
    IF i > Len(envVars) THEN m
    ELSE EnvVarLoop(envVars, i + 1, EnvVarStep(envVars[i], m))

\* loadEnvVars(configMap): the map after the call (the error is always nil).
loadEnvVars(envVars, m) ==
    IF envVars.nil THEN m ELSE EnvVarLoop(envVars.v, 1, m)

FlagPrefix == <<"-", "-">>

\* loadArgs's loop body taking a next token that starts with one dash for a
\* flag.
ArgStepDashIsFlag(args, i, m) ==
    IF HasPrefix(args[i], FlagPrefix)
    THEN IF i + 1 <= Len(args) /\ ~HasPrefix(args[i + 1], <<"-">>)
         THEN MapSet(m, ToLower(TrimPrefix(args[i], FlagPrefix)), parseValue(args[i + 1]))
         ELSE MapSet(m, ToLower(TrimPrefix(args[i], FlagPrefix)), BoolV(TRUE))
    ELSE m

\* loadArgs's loop body that stores a flag's value without looking whether the
\* next token is itself a flag.
ArgStepNoLookahead(args, i, m) ==
    IF HasPrefix(args[i], FlagPrefix)
    THEN IF i + 1 <= Len(args)
         THEN MapSet(m, ToLower(TrimPrefix(args[i], FlagPrefix)), parseValue(args[i + 1]))
         ELSE MapSet(m, ToLower(TrimPrefix(args[i], FlagPrefix)), BoolV(TRUE))
    ELSE m

\* The body of loadArgs's loop at index i (1-based here, 0-based in the code).
ArgStep(args, i, m) ==
    IF HasPrefix(args[i], FlagPrefix)
    THEN IF i + 1 <= Len(args) /\ ~HasPrefix(args[i + 1], FlagPrefix)
         THEN MapSet(m, ToLower(TrimPrefix(args[i], FlagPrefix)), parseValue(args[i + 1]))
         ELSE MapSet(m, ToLower(TrimPrefix(args[i], FlagPrefix)), BoolV(TRUE))
    ELSE m

RECURSIVE ArgLoop(_, _, _)
ArgLoop(args, i, m) ==
    IF i > Len(args) THEN m ELSE ArgLoop(args, i + 1, ArgStep(args, i, m))

\* loadArgs(configMap): the map after the call (the error is always nil).
loadArgs(args, m) ==
    IF args.nil THEN m ELSE ArgLoop(args.v, 1, m)

-----------------------------------------------------------------------------
(* encoding/json: documents, Marshal of the map, Unmarshal into the map    *)
(* and into the schema type                                                *)

\* A JSON text is kept as its token tree: a number keeps its literal.
JNum(lit) == [j |-> "number", lit |-> lit]
JStr(str) == [j |-> "string", s |-> str]
JBool(b) == [j |-> "bool", b |-> b]
JNull == [j |-> "null"]
JArr == [j |-> "array"]
JObj(members) == [j |-> "object", members |-> members]
Malformed == [j |-> "malformed"]

Member(key, val) == [key |-> key, val |-> val]

NilV == [t |-> "nil"]

\* Decoding a JSON value into an interface{}: numbers become float64.
DecodeAny(tok) ==
    CASE tok.j = "number" -> ParseFloat(tok.lit).v
      [] tok.j = "string" -> StrV(tok.s)
      [] tok.j = "bool"   -> BoolV(tok.b)
      [] OTHER            -> NilV

\* The members of an object stored into a map from left to right, so that a
\* repeated key keeps its last value.
RECURSIVE MembersToMap(_, _, _)
MembersToMap(members, i, m) ==
    IF i > Len(members) THEN m
    ELSE MembersToMap(members, i + 1,
                      MapSet(m, members[i].key, DecodeAny(members[i].val)))

\* UnmarshalMap taking malformed text for an empty object.
UnmarshalMapIgnoreSyntax(doc) ==
    CASE doc.j = "object" -> [err |-> Nil, m |-> MembersToMap(doc.members, 1, EmptyMap)]
      [] doc.j \in {"null", "malformed"} -> [err |-> Nil, m |-> EmptyMap]
      [] OTHER -> [err |-> "type", m |-> EmptyMap]

\* UnmarshalMap reporting null like every other value that is not an object.
UnmarshalMapNullIsError(doc) ==
    CASE doc.j = "malformed" -> [err |-> "syntax", m |-> EmptyMap]
      [] doc.j = "object"    -> [err |-> Nil, m |-> MembersToMap(doc.members, 1, EmptyMap)]
      [] OTHER               -> [err |-> "type", m |-> EmptyMap]

\* json.Unmarshal(data, &fileConfig) with fileConfig a nil map: a syntax error
\* for malformed text, a nil map and no error for null, a type error for any
\* other value that is not an object.
UnmarshalMap(doc) ==
    CASE doc.j = "malformed" -> [err |-> "syntax", m |-> EmptyMap]
      [] doc.j = "object"    -> [err |-> Nil, m |-> MembersToMap(doc.members, 1, EmptyMap)]
      [] doc.j = "null"      -> [err |-> Nil, m |-> EmptyMap]
      [] OTHER               -> [err |-> "type", m |-> EmptyMap]

\* The decimal digits of n >= 0.
RECURSIVE IntToDigits(_)
IntToDigits(n) ==
    IF n < 10 THEN <<Chr(48 + n)>> ELSE Append(IntToDigits(n \div 10), Chr(48 + (n % 10)))

\* strconv.FormatInt(i, 10)
FormatInt(i) == IF i < 0 THEN <<"-">> \o IntToDigits(-i) ELSE IntToDigits(i)

Zeros(n) == [i \in 1..n |-> "0"]

\* The float encoder switches to exponent format below 1e-6 and from 1e21 on.
FloatFmtMinPos == -6
FloatFmtMaxPos == 22

\* strconv.AppendFloat(f, 'f', -1, 64) of |m| * 10^e: the shortest digits.
FormatFixed(m, e) ==
    LET D == IntToDigits(m)
    IN  IF e >= 0 THEN D \o Zeros(e)
        ELSE IF Len(D) > -e
             THEN SubSeq(D, 1, Len(D) + e) \o <<".">> \o SubSeq(D, Len(D) + e + 1, Len(D))
             ELSE <<"0", ".">> \o Zeros(-e - Len(D)) \o D

\* strconv.AppendFloat(f, 'e', -1, 64) after the encoder's clean-up of e-09 to
\* e-9: one mantissa digit, the others behind a point, a signed exponent.
FormatExp(m, e) ==
    LET D == IntToDigits(m)
        x == Len(D) - 1 + e
    IN  <<D[1]>> \o (IF Len(D) > 1 THEN <<".">> \o Tail(D) ELSE <<>>)
        \o <<"e", IF x < 0 THEN "-" ELSE "+">>
        \o IntToDigits(Abs(x))

\* encoding/json's float64 encoder for a finite value.
FormatFloat(v) ==
    LET a == Abs(v.m)
        pos == NumDigits(a) + v.e
    IN  (IF v.m < 0 THEN <<"-">> ELSE <<>>)
        \o (IF a # 0 /\ (pos <= FloatFmtMinPos \/ pos >= FloatFmtMaxPos)
            THEN FormatExp(a, v.e) ELSE FormatFixed(a, v.e))

\* The encoding of one map value; NaN and the infinities have none.
EncodeValue(v) ==
    CASE v.t = "bool"   -> [ok |-> TRUE, tok |-> JBool(v.b)]
      [] v.t = "int"    -> [ok |-> TRUE, tok |-> JNum(FormatInt(v.i))]
      [] v.t = "float"  -> IF IsFinite(v) THEN [ok |-> TRUE, tok |-> JNum(FormatFloat(v))]
                           ELSE Fail
      [] v.t = "string" -> [ok |-> TRUE, tok |-> JStr(v.s)]
      [] OTHER          -> [ok |-> TRUE, tok |-> JNull]

\* The least string of a non-empty set in byte order.
MinKey(S) == CHOOSE k \in S : \A o \in S : o = k \/ StrLess(k, o)

\* The keys of a map in the order json.Marshal writes them.
RECURSIVE SortedKeys(_)
SortedKeys(S) ==
    IF S = {} THEN <<>>
    ELSE LET k == MinKey(S) IN <<k>> \o SortedKeys(S \ {k})

\* json.Marshal(configMap): an object with the keys sorted, or an error when a
\* value cannot be encoded.
Marshal(m) ==
    IF \E k \in DOMAIN m : ~EncodeValue(m[k]).ok THEN [ok |-> FALSE]
    ELSE LET keys == SortedKeys(DOMAIN m)
         IN  [ok |-> TRUE,
              doc |-> JObj([i \in 1..Len(keys) |->
                              Member(keys[i], EncodeValue(m[keys[i]]).tok)])]

-----------------------------------------------------------------------------
(* The schema type T: TestConfig                                           *)

sPort == <<"p", "o", "r", "t">>
sDatabaseURL == <<"d", "a", "t", "a", "b", "a", "s", "e", "U", "R", "L">>
sDebugMode == <<"d", "e", "b", "u", "g", "M", "o", "d", "e">>
sTimeout == <<"t", "i", "m", "e", "o", "u", "t">>
sName == <<"n", "a", "m", "e">>

\* The fields of TestConfig in declaration order, with their json tags.
Fields ==
    <<[name |-> "DatabaseURL", tag |-> sDatabaseURL, type |-> "string"],
      [name |-> "Port",        tag |-> sPort,        type |-> "int"],
      [name |-> "DebugMode",   tag |-> sDebugMode,   type |-> "bool"],
      [name |-> "Timeout",     tag |-> sTimeout,     type |-> "float64"],
      [name |-> "Name",        tag |-> sName,        type |-> "string"]>>

FieldNames == {Fields[i].name : i \in 1..Len(Fields)}

ZeroOf(type) ==
    CASE type = "string"  -> StrV(<<>>)
      [] type = "int"     -> IntV(0)
      [] type = "bool"    -> BoolV(FALSE)
      [] type = "float64" -> FloatV(0, 0)

FieldOf(name) == Fields[CHOOSE i \in 1..Len(Fields) : Fields[i].name = name]

\* var result T
ZeroValue == [f \in FieldNames |-> ZeroOf(FieldOf(f).type)]

\* encoding/json's foldName on ASCII: a..z become A..Z.
FoldName(s) == [i \in 1..Len(s) |-> UpperChar(s[i])]

First(S) == CHOOSE i \in S : \A o \in S : i <= o

\* A field lookup that accepts only the exact tag.
FindFieldExact(key) ==
    IF \E i \in 1..Len(Fields) : Fields[i].tag = key
    THEN First({i \in 1..Len(Fields) : Fields[i].tag = key})
    ELSE 0

\* The decoder's field lookup for an object key: the field whose tag is the key
\* exactly, else the first field whose folded tag equals the folded key, else
\* none (0).
FindField(key) ==
    IF \E i \in 1..Len(Fields) : Fields[i].tag = key
    THEN First({i \in 1..Len(Fields) : Fields[i].tag = key})
    ELSE IF \E i \in 1..Len(Fields) : FoldName(Fields[i].tag) = FoldName(key)
    THEN First({i \in 1..Len(Fields) : FoldName(Fields[i].tag) = FoldName(key)})
    ELSE 0

\* StoreField leaving the field alone, without an error, when the kinds differ.
StoreFieldIgnoreMismatch(type, tok, old) ==
    CASE type = "string" /\ tok.j = "string" -> [ok |-> TRUE, v |-> StrV(tok.s)]
      [] type = "bool" /\ tok.j = "bool" -> [ok |-> TRUE, v |-> BoolV(tok.b)]
      [] type = "int" /\ tok.j = "number" /\ Atoi(tok.lit).ok
            -> [ok |-> TRUE, v |-> IntV(Atoi(tok.lit).i)]
      [] type = "float64" /\ tok.j = "number" /\ ParseFloat(tok.lit).ok
            -> [ok |-> TRUE, v |-> ParseFloat(tok.lit).v]
      [] OTHER -> [ok |-> TRUE, v |-> old]

\* Storing a JSON value into a field of the given type: null leaves the field
\* as it is, a value of another kind (or a number literal the field's type
\* cannot hold) is an UnmarshalTypeError and leaves the field as it is.
StoreField(type, tok, old) ==
    CASE tok.j = "null" -> [ok |-> TRUE, v |-> old]
      [] type = "string" /\ tok.j = "string" -> [ok |-> TRUE, v |-> StrV(tok.s)]
      [] type = "bool" /\ tok.j = "bool" -> [ok |-> TRUE, v |-> BoolV(tok.b)]
      [] type = "int" /\ tok.j = "number"
            -> LET n == Atoi(tok.lit)
               IN  IF n.ok THEN [ok |-> TRUE, v |-> IntV(n.i)] ELSE [ok |-> FALSE, v |-> old]
      [] type = "float64" /\ tok.j = "number"
            -> LET f == ParseFloat(tok.lit)
               IN  IF f.ok THEN [ok |-> TRUE, v |-> f.v] ELSE [ok |-> FALSE, v |-> old]
      [] OTHER -> [ok |-> FALSE, v |-> old]

\* The decoder's walk over the members of the object in document order: every
\* key that finds a field stores into it, the first error is kept and the walk
\* goes on.
RECURSIVE DecodeMembers(_, _, _)
DecodeMembers(members, i, acc) ==
    IF i > Len(members) THEN acc
    ELSE LET f == FindField(members[i].key)
         IN  IF f = 0 THEN DecodeMembers(members, i + 1, acc)
             ELSE LET st == StoreField(Fields[f].type, members[i].val,
                                       acc.val[Fields[f].name])
                  IN  DecodeMembers(members, i + 1,
                        [val |-> [acc.val EXCEPT ![Fields[f].name] = st.v],
                         err |-> IF acc.err = Nil /\ ~st.ok THEN "type" ELSE acc.err])

\* json.Unmarshal(jsonData, &result)
UnmarshalStruct(doc) == DecodeMembers(doc.members, 1, [val |-> ZeroValue, err |-> Nil])

\* unmarshalToType returning (nil, nil) when the map cannot be marshalled.
unmarshalToTypeDropMarshalError(m) ==
    LET jsonData == Marshal(m)
    IN  IF ~jsonData.ok THEN [result |-> None, err |-> Nil]
        ELSE LET u == UnmarshalStruct(jsonData.doc)
             IN  IF u.err # Nil THEN [result |-> None, err |-> u.err]
                 ELSE [result |-> Some(u.val), err |-> Nil]

\* unmarshalToType(configMap): (result, err)
unmarshalToType(m) ==
    LET jsonData == Marshal(m)
    IN  IF ~jsonData.ok THEN [result |-> None, err |-> "marshal"]
        ELSE LET u == UnmarshalStruct(jsonData.doc)
             IN  IF u.err # Nil THEN [result |-> None, err |-> u.err]
                 ELSE [result |-> Some(u.val), err |-> Nil]

-----------------------------------------------------------------------------
(* Files                                                                   *)

sConfigJson == <<"c", "o", "n", "f", "i", "g", ".", "j", "s", "o", "n">>
sConfigDot == <<"c", "o", "n", "f", "i", "g", ".">>
sDotJson == <<".", "j", "s", "o", "n">>

\* filepath.Join(dir, name) for a clean dir: an empty dir is dropped.
Join(dir, name) == IF dir = <<>> THEN name ELSE dir \o <<"/">> \o name

\* fmt.Sprintf("config.%s.json", environment)
EnvFileName(environment) == sConfigDot \o environment \o sDotJson

Unreadable == [kind |-> "unreadable"]
File(doc) == [kind |-> "file", doc |-> doc]

\* os.ReadFile(filePath): the bytes, a not-exist error or another read error.
ReadFile(filesys, filePath) ==
    IF filePath \notin DOMAIN filesys THEN [err |-> "notexist"]
    ELSE IF filesys[filePath].kind = "unreadable" THEN [err |-> "read"]
    ELSE [err |-> Nil, data |-> filesys[filePath].doc]

\* A merge that replaces the map by the map of the file.
MergeReplace(m, fileConfig) == fileConfig

\* A merge that keeps the value of a key the map already holds.
MergeKeepExisting(m, fileConfig) ==
    [k \in DOMAIN m \cup DOMAIN fileConfig |->
        IF k \in DOMAIN m THEN m[k] ELSE fileConfig[k]]

\* Merge into configMap: for key, value := range fileConfig.
Merge(m, fileConfig) ==
    [k \in DOMAIN m \cup DOMAIN fileConfig |->
        IF k \in DOMAIN fileConfig THEN fileConfig[k] ELSE m[k]]

\* loadConfigFile with a missing file reported like any other read error.
loadConfigFileStrict(filesys, filePath, m) ==
    LET rd == ReadFile(filesys, filePath)
    IN  IF rd.err # Nil THEN [err |-> rd.err, m |-> m]
        ELSE LET u == UnmarshalMap(rd.data)
             IN  IF u.err # Nil THEN [err |-> u.err, m |-> m]
                 ELSE [err |-> Nil, m |-> Merge(m, u.m)]

\* loadConfigFile(filePath, configMap): the error and the map after the call.
loadConfigFile(filesys, filePath, m) ==
    LET rd == ReadFile(filesys, filePath)
    IN  IF rd.err = "notexist" THEN [err |-> Nil, m |-> m]
        ELSE IF rd.err # Nil THEN [err |-> rd.err, m |-> m]
        ELSE LET u == UnmarshalMap(rd.data)
             IN  IF u.err # Nil THEN [err |-> u.err, m |-> m]
                 ELSE [err |-> Nil, m |-> Merge(m, u.m)]

\* filepath.Dir(os.Executable()) of this process.
ExeDir == <<"/", "b">>

\* getWD(): the directory of the executable, or the error of os.Executable.
getWD(ok) ==
    IF ok THEN [dir |-> Some(ExeDir), err |-> Nil] ELSE [dir |-> None, err |-> "executable"]

\* getConfigDirectory(): the override verbatim when set, else getWD().
getConfigDirectory(override, ok) ==
    IF ~override.nil THEN [dir |-> override, err |-> Nil] ELSE getWD(ok)

\* fmt.Errorf("failed to ...: %w", err): the cause wrapped with its stage.
Wrap(stage, cause) == [nil |-> FALSE, stage |-> stage, cause |-> cause]

-----------------------------------------------------------------------------
(* The inputs of the model                                                 *)

s3000 == <<"3", "0", "0", "0">>
s9000 == <<"9", "0", "0", "0">>
s8080 == <<"8", "0", "8", "0">>
s8090 == <<"8", "0", "9", "0">>
s12 == <<"1", "2">>
sDb == <<"d", "b">>
sBase == <<"b", "a", "s", "e">>
sProg == <<"p", "r", "o", "g">>
sDatabaseUnderscoreUrl == <<"D", "A", "T", "A", "B", "A", "S", "E", "_", "U", "R", "L">>
sDatabaseHyphenUrl == <<"d", "a", "t", "a", "b", "a", "s", "e", "-", "u", "r", "l">>
sDev == <<"d", "e", "v">>
sProd == <<"p", "r", "o", "d">>

\* An environment entry NAME=VALUE and a flag token --name.
Entry(name, value) == name \o <<"=">> \o value
Flag(name) == FlagPrefix \o name

\* The directory given to WithConfigDirectory that exists, and one that does not.
CfgDir == <<"/", "c">>
MissingDir == <<"/", "n">>

\* The argument lists handed to WithArgs.
ArgsChoices ==
    {<<>>,
     <<Flag(sPort), s3000>>,
     <<Flag(FoldName(sPort)), <<"1">>>>,
     <<Flag(ToLower(sDatabaseURL)), sDb>>,
     <<Flag(sDatabaseHyphenUrl), sDb>>,
     <<sProg, Flag(ToLower(sDebugMode))>>}

\* The environment lists handed to WithEnvVars.
EnvVarsChoices ==
    {<<>>,
     <<Entry(FoldName(sPort), s9000)>>,
     <<Entry(FoldName(sDatabaseURL), sDb)>>,
     <<Entry(ToLower(sDatabaseURL), sDb)>>,
     <<Entry(sDatabaseUnderscoreUrl, sDb)>>,
     <<Entry(FoldName(sDatabaseURL), s12)>>,
     <<Entry(sDatabaseUnderscoreUrl, sNaN)>>,
     <<Entry(FoldName(sPort), s9000), Entry(FoldName(sName), sDb)>>}

EnvironmentChoices == {sDev, sProd}

DirectoryChoices == {CfgDir, MissingDir}

\* The states of config.json: absent (no entry), unreadable, or a file.
BaseFileChoices ==
    {None, Some(Unreadable), Some(File(Malformed)), Some(File(JNull)), Some(File(JArr)),
     Some(File(JNum(s8080))), Some(File(JStr(sBase))), Some(File(JBool(TRUE))),
     Some(File(JObj(<<Member(sPort, JNum(s8080)), Member(sDatabaseURL, JStr(sBase))>>))),
     Some(File(JObj(<<Member(FoldName(sPort), JNum(s8080))>>))),
     Some(File(JObj(<<Member(sPort, JStr(sBase))>>)))}

\* The states of config.dev.json (config.prod.json never exists).
EnvFileChoices ==
    {None, Some(Unreadable), Some(File(Malformed)), Some(File(JNull)), Some(File(JArr)),
     Some(File(JObj(<<Member(sPort, JNum(s8090))>>))),
     Some(File(JObj(<<Member(FoldName(sPort), JNum(s8090))>>)))}

\* The file system holding the two files, in the given state, both in CfgDir
\* and in the directory of the executable; MissingDir holds nothing.
FileSystem(base, envf) ==
    LET paths == {Join(d, n) : d \in {CfgDir, ExeDir},
                               n \in {sConfigJson, EnvFileName(sDev)}}
        state(pth) == IF pth \in {Join(CfgDir, sConfigJson), Join(ExeDir, sConfigJson)}
                      THEN base ELSE envf
    IN  [pth \in {q \in paths : ~state(q).nil} |-> state(pth).v]

-----------------------------------------------------------------------------
(* The loader: New, the setters and Load                                   *)

\* New[T](): every input unset; no call is running.
Init ==
    /\ withArgs = None
    /\ withEnvVars = None
    /\ withEnvironment = None
    /\ withConfigDirectory = None
    /\ \E base \in BaseFileChoices, envf \in EnvFileChoices : fs = FileSystem(base, envf)
    /\ pc = "idle"
    /\ configDir = None
    /\ configMap = EmptyMap
    /\ result = None
    /\ err = None
    /\ reads = <<>>
    /\ input = None
    /\ output = None

Fixed == <<fs, input, output>>
Locals == <<pc, configDir, configMap, result, err, reads>>

\* WithArgs forgetting the environment variables set before.
WithArgsClearsEnvVars(args) ==
    /\ pc = "idle"
    /\ withArgs' = args
    /\ withEnvVars' = None
    /\ UNCHANGED <<withEnvironment, withConfigDirectory, Fixed, Locals>>

\* WithArgs(args): a.withArgs = args
WithArgs(args) ==
    /\ pc = "idle"
    /\ withArgs' = args
    /\ UNCHANGED <<withEnvVars, withEnvironment, withConfigDirectory, Fixed, Locals>>

WithEnvVars(env) ==
    /\ pc = "idle"
    /\ withEnvVars' = env
    /\ UNCHANGED <<withArgs, withEnvironment, withConfigDirectory, Fixed, Locals>>

WithEnvironment(environment) ==
    /\ pc = "idle"
    /\ withEnvironment' = Some(environment)
    /\ UNCHANGED <<withArgs, withEnvVars, withConfigDirectory, Fixed, Locals>>

WithConfigDirectory(configDirectory) ==
    /\ pc = "idle"
    /\ withConfigDirectory' = Some(configDirectory)
    /\ UNCHANGED <<withArgs, withEnvVars, withEnvironment, Fixed, Locals>>

Settings == <<withArgs, withEnvVars, withEnvironment, withConfigDirectory>>

\* Load, lines 36-42: the fresh map and the config directory.
LoadStart(exeOK) ==
    /\ pc = "idle"
    /\ configMap' = EmptyMap
    /\ reads' = <<>>
    /\ LET r == getConfigDirectory(withConfigDirectory, exeOK)
       IN  IF r.err # Nil
           THEN /\ pc' = "done"
                /\ configDir' = None
                /\ result' = None
                /\ err' = Wrap("config directory", r.err)
           ELSE /\ pc' = "base"
                /\ configDir' = r.dir
                /\ result' = None
                /\ err' = None
    /\ UNCHANGED <<Settings, Fixed>>

\* The base stage going on to the environment file after an error.
LoadBaseConfigNoAbort ==
    /\ pc = "base"
    /\ LET baseConfigPath == Join(configDir.v, sConfigJson)
           r == loadConfigFile(fs, baseConfigPath, configMap)
       IN  /\ reads' = Append(reads, baseConfigPath)
           /\ configMap' = r.m
           /\ pc' = "envfile"
           /\ err' = IF r.err # Nil THEN Wrap("base config", r.err) ELSE None
    /\ UNCHANGED <<Settings, Fixed, configDir, result>>

\* Load, lines 44-48: the base config file.
LoadBaseConfig ==
    /\ pc = "base"
    /\ LET baseConfigPath == Join(configDir.v, sConfigJson)
           r == loadConfigFile(fs, baseConfigPath, configMap)
       IN  /\ reads' = Append(reads, baseConfigPath)
           /\ configMap' = r.m
           /\ IF r.err # Nil
              THEN /\ pc' = "done"
                   /\ err' = Wrap("base config", r.err)
              ELSE /\ pc' = "envfile"
                   /\ err' = None
    /\ UNCHANGED <<Settings, Fixed, configDir, result>>

\* Load, lines 50-56: the environment-specific config file, if one is named.
LoadEnvConfig ==
    /\ pc = "envfile"
    /\ IF ~withEnvironment.nil
       THEN LET envConfigPath == Join(configDir.v, EnvFileName(withEnvironment.v))
                r == loadConfigFile(fs, envConfigPath, configMap)
            IN  /\ reads' = Append(reads, envConfigPath)
                /\ configMap' = r.m
                /\ IF r.err # Nil
                   THEN /\ pc' = "done"
                        /\ err' = Wrap("env config", r.err)
                   ELSE /\ pc' = "envvars"
                        /\ err' = None
       ELSE /\ pc' = "envvars"
            /\ UNCHANGED <<reads, configMap, err>>
    /\ UNCHANGED <<Settings, Fixed, configDir, result>>

\* Load, lines 58-61: the environment variables (loadEnvVars returns nil).
LoadEnvVars ==
    /\ pc = "envvars"
    /\ configMap' = loadEnvVars(withEnvVars, configMap)
    /\ pc' = "args"
    /\ UNCHANGED <<Settings, Fixed, configDir, result, err, reads>>

\* Load, lines 63-66: the command line arguments (loadArgs returns nil).
LoadArgs ==
    /\ pc = "args"
    /\ configMap' = loadArgs(withArgs, configMap)
    /\ pc' = "unmarshal"
    /\ UNCHANGED <<Settings, Fixed, configDir, result, err, reads>>

\* Load, lines 68-74: the projection and the return values.
LoadUnmarshal ==
    /\ pc = "unmarshal"
    /\ LET r == unmarshalToType(configMap)
       IN  IF r.err # Nil
           THEN /\ result' = None
                /\ err' = Wrap("unmarshal config", r.err)
           ELSE /\ result' = r.result
                /\ err' = None
    /\ pc' = "done"
    /\ UNCHANGED <<Settings, Fixed, configDir, configMap, reads>>

\* The caller takes (result, err); the locals of the call are gone.
LoadReturn ==
    /\ pc = "done"
    /\ pc' = "idle"
    /\ configDir' = None
    /\ configMap' = EmptyMap
    /\ result' = None
    /\ err' = None
    /\ reads' = <<>>
    /\ UNCHANGED <<Settings, Fixed>>

Next ==
    \/ \E args \in ArgsChoices : WithArgs(Some(args))
    \/ \E env \in EnvVarsChoices : WithEnvVars(Some(env))
    \/ \E environment \in EnvironmentChoices : WithEnvironment(environment)
    \/ \E dir \in DirectoryChoices : WithConfigDirectory(dir)
    \/ \E exeOK \in BOOLEAN : LoadStart(exeOK)
    \/ LoadBaseConfig
    \/ LoadEnvConfig
    \/ LoadEnvVars
    \/ LoadArgs
    \/ LoadUnmarshal
    \/ LoadReturn

Spec == Init /\ [][Next]_vars

-----------------------------------------------------------------------------
(* Direct calls of parseValue, loadArgs and loadEnvVars, as the tests make *)
(* them on a fresh loader                                                  *)

MaxLen == 4
MaxArgs == 3
MaxEnvVars == 3

\* All strings over the alphabet A of length at most n.
StringsUpTo(A, n) == UNION {[1..k -> A] : k \in 0..n}

sTrue == <<"t", "r", "u", "e">>
sFalse == <<"f", "a", "l", "s", "e">>

\* Every spelling of the word w in upper- and lower-case letters.
CaseVariants(w) ==
    {v \in [1..Len(w) -> {LowerChar(w[i]) : i \in 1..Len(w)}
                          \cup {UpperChar(w[i]) : i \in 1..Len(w)}] :
        \A i \in 1..Len(w) : LowerChar(v[i]) = LowerChar(w[i])}

\* The characters of the exhaustively enumerated inputs of parseValue: digits,
\* signs, the point, the exponent letter and one-letter boolean spellings.
InferAlphabet == {"0", "1", "7", "-", "+", ".", "e", "t", "F"}

\* The inputs of TestParseValue and of the specification's examples.
InferExamples ==
    {<<"t", "r", "u", "e">>,
     <<"f", "a", "l", "s", "e">>,
     <<"T", "r", "u", "e">>,
     <<"F", "A", "L", "S", "E">>,
     <<"F", "a", "l", "s", "e">>,
     <<"1", "2", "3">>,
     <<"-", "4", "5", "6">>,
     <<"0">>,
     <<"1", "2", "3", ".", "4", "5">>,
     <<"-", "6", "7", ".", "8", "9">>,
     <<"0", ".", "0">>,
     <<"h", "e", "l", "l", "o">>,
     <<>>,
     <<"1", "2", "3", "a", "b", "c">>,
     <<"t", "r", "u", "e", "1", "2", "3">>,
     <<"-", "4", "5", ".", "6">>,
     <<"n", "a", "n">>,
     <<"I", "n", "f">>,
     <<"-", "I", "n", "f", "i", "n", "i", "t", "y">>,
     <<"1", "e", "4", "0", "0">>}

InferInputs ==
    StringsUpTo(InferAlphabet, MaxLen) \cup CaseVariants(sTrue) \cup CaseVariants(sFalse)
        \cup InferExamples

\* A fresh loader and one argument for parseValue.
InitInfer ==
    /\ withArgs = None
    /\ withEnvVars = None
    /\ withEnvironment = None
    /\ withConfigDirectory = None
    /\ fs = <<>>
    /\ pc = "idle"
    /\ configDir = None
    /\ configMap = EmptyMap
    /\ result = None
    /\ err = None
    /\ reads = <<>>
    /\ input \in {Some(x) : x \in InferInputs}
    /\ output = None

\* result := appSettings.parseValue(test.input)
CallParseValue ==
    /\ pc = "idle"
    /\ output' = Some(parseValue(input.v))
    /\ pc' = "returned"
    /\ UNCHANGED <<Settings, fs, input, configDir, configMap, result, err, reads>>

NextInfer == CallParseValue

SpecInfer == InitInfer /\ [][NextInfer]_vars

\* The tokens of the exhaustively enumerated argument lists: flags in both
\* letter cases, the bare prefix, values, and a value starting with one hyphen.
ArgTokens ==
    {Flag(sPort), Flag(FoldName(sName)), FlagPrefix, s3000, sProg, <<"-", "1">>}

\* The maps handed to a direct call: an empty one and one that holds keys.
StartMaps ==
    {EmptyMap,
     MapSet(MapSet(EmptyMap, sPort, FloatV(8080, 0)), sDatabaseURL, StrV(sBase))}

\* A loader after WithArgs (or without it) and a map for loadArgs.
InitArgs ==
    /\ withArgs \in {None} \cup {Some(a) : a \in StringsUpTo(ArgTokens, MaxArgs)}
    /\ withEnvVars = None
    /\ withEnvironment = None
    /\ withConfigDirectory = None
    /\ fs = <<>>
    /\ pc = "idle"
    /\ configDir = None
    /\ configMap \in StartMaps
    /\ result = None
    /\ err = None
    /\ reads = <<>>
    /\ input = Some(configMap)
    /\ output = None

\* err := appSettings.loadArgs(configMap)
CallLoadArgs ==
    /\ pc = "idle"
    /\ configMap' = loadArgs(withArgs, configMap)
    /\ output' = Some(Nil)
    /\ pc' = "returned"
    /\ UNCHANGED <<Settings, fs, input, configDir, result, err, reads>>

NextArgs == CallLoadArgs

SpecArgs == InitArgs /\ [][NextArgs]_vars

\* The entries of the exhaustively enumerated environment lists: names in both
\* letter cases with an underscore or a hyphen, a value holding "=", an empty
\* value, an empty name and an entry without "=".
EnvEntries ==
    {Entry(FoldName(sPort), s9000), Entry(sPort, <<"1">>),
     Entry(<<"D", "b", "_", "U">>, <<"a", "=", "b">>), Entry(<<"a", "-", "B">>, <<>>),
     Entry(<<>>, sDb), sProg}

\* A loader after WithEnvVars (or without it) and a map for loadEnvVars.
InitEnv ==
    /\ withArgs = None
    /\ withEnvVars \in {None} \cup {Some(e) : e \in StringsUpTo(EnvEntries, MaxEnvVars)}
    /\ withEnvironment = None
    /\ withConfigDirectory = None
    /\ fs = <<>>
    /\ pc = "idle"
    /\ configDir = None
    /\ configMap \in StartMaps
    /\ result = None
    /\ err = None
    /\ reads = <<>>
    /\ input = Some(configMap)
    /\ output = None

\* err := appSettings.loadEnvVars(configMap)
CallLoadEnvVars ==
    /\ pc = "idle"
    /\ configMap' = loadEnvVars(withEnvVars, configMap)
    /\ output' = Some(Nil)
    /\ pc' = "returned"
    /\ UNCHANGED <<Settings, fs, input, configDir, result, err, reads>>

NextEnv == CallLoadEnvVars

SpecEnv == InitEnv /\ [][NextEnv]_vars

-----------------------------------------------------------------------------
(* Calls on one loader, the call and its argument on record: New, the four *)
(* setters and Load, from whatever the setters have stored before          *)

\* New[T](): all four inputs unset.
New ==
    /\ pc = "idle"
    /\ withArgs' = None
    /\ withEnvVars' = None
    /\ withEnvironment' = None
    /\ withConfigDirectory' = None
    /\ UNCHANGED <<Fixed, Locals>>

Call(op, arg) == [op |-> op, arg |-> arg]

CallChoices ==
    {Call("New", None), Call("Load", None)}
        \cup {Call("WithArgs", Some(a)) : a \in ArgsChoices}
        \cup {Call("WithEnvVars", Some(e)) : e \in EnvVarsChoices}
        \cup {Call("WithEnvironment", Some(n)) : n \in EnvironmentChoices}
        \cup {Call("WithConfigDirectory", Some(d)) : d \in DirectoryChoices}

InitSetters ==
    /\ withArgs \in {None} \cup {Some(a) : a \in ArgsChoices}
    /\ withEnvVars \in {None} \cup {Some(e) : e \in EnvVarsChoices}
    /\ withEnvironment \in {None} \cup {Some(n) : n \in EnvironmentChoices}
    /\ withConfigDirectory \in {None} \cup {Some(d) : d \in DirectoryChoices}
    /\ fs = <<>>
    /\ pc = "idle"
    /\ configDir = None
    /\ configMap = EmptyMap
    /\ result = None
    /\ err = None
    /\ reads = <<>>
    /\ input \in {Some(c) : c \in CallChoices}
    /\ output = None

CallNew == input.v.op = "New" /\ New
CallWithArgs == input.v.op = "WithArgs" /\ WithArgs(input.v.arg)
CallWithEnvVars == input.v.op = "WithEnvVars" /\ WithEnvVars(input.v.arg)
CallWithEnvironment == input.v.op = "WithEnvironment" /\ WithEnvironment(input.v.arg.v)
CallWithConfigDirectory ==
    input.v.op = "WithConfigDirectory" /\ WithConfigDirectory(input.v.arg.v)
CallLoad == input.v.op = "Load" /\ \E exeOK \in BOOLEAN : LoadStart(exeOK)

NextSetters ==
    \/ CallNew
    \/ CallWithArgs
    \/ CallWithEnvVars
    \/ CallWithEnvironment
    \/ CallWithConfigDirectory
    \/ CallLoad
    \/ LoadBaseConfig
    \/ LoadEnvConfig
    \/ LoadEnvVars
    \/ LoadArgs
    \/ LoadUnmarshal
    \/ LoadReturn

SpecSetters == InitSetters /\ [][NextSetters]_vars

-----------------------------------------------------------------------------
(* Properties of parseValue, loadArgs and loadEnvVars                      *)

\* C2 (SpecInfer): parseValue tries bool, then int, then float64, then keeps
\* the string, the first success winning: the listed examples come out as
\* stated ("0" is the boolean false, not the integer 0), a string that is a
\* signed base-10 integer and no boolean literal comes out as that integer, a
\* decimal float as that float, and anything else comes out unchanged.
C2_ValueInference ==
    pc = "returned" =>
        LET in == input.v
            out == output.v
        IN  /\ in = sTrue => out = BoolV(TRUE)
            /\ in = <<"F", "a", "l", "s", "e">> => out = BoolV(FALSE)
            /\ in = <<"0">> => out = BoolV(FALSE)
            /\ in = <<"1", "2", "3">> => out = IntV(123)
            /\ in = <<"-", "4", "5", ".", "6">> => out = FloatV(-456, -1)
            /\ in = <<"h", "e", "l", "l", "o">> => out = StrV(in)
            /\ in = <<>> => out = StrV(<<>>)
            /\ in = <<"1", "2", "3", "a", "b", "c">> => out = StrV(in)
            /\ ParseBool(in).ok => out = BoolV(ParseBool(in).b)
            /\ ~ParseBool(in).ok /\ Atoi(in).ok => out = IntV(Atoi(in).i)
            /\ ~ParseBool(in).ok /\ ~Atoi(in).ok /\ ParseFloat(in).ok => out = ParseFloat(in).v
            /\ ~ParseBool(in).ok /\ ~Atoi(in).ok /\ ~ParseFloat(in).ok => out = StrV(in)
            /\ out.t = "string" => out.s = in

C2_Witness == pc = "returned" /\ input.v = <<"0">> /\ output.v = BoolV(FALSE)

IsFlagToken(tok) == Len(tok) >= 2 /\ tok[1] = "-" /\ tok[2] = "-"

FlagKey(tok) == ToLower(SubSeq(tok, 3, Len(tok)))

FlagIndexes(args, k) ==
    {i \in 1..Len(args) : IsFlagToken(args[i]) /\ FlagKey(args[i]) = k}

Last(S) == CHOOSE i \in S : \A o \in S : o <= i

\* What the flag at index i stores: the inferred next token, or true.
FlagStores(args, i) ==
    IF i < Len(args) /\ ~IsFlagToken(args[i + 1]) THEN parseValue(args[i + 1])
    ELSE BoolV(TRUE)

\* C3 (SpecArgs): loadArgs returns nil; a nil or empty list leaves the map as it
\* was; otherwise the keys of the map are the keys it had and lower(X) for every
\* token --X, a key of a flag holds what its last flag stores (infer(Y) when the
\* next token Y is no flag, true when it is a flag or there is none), and every
\* other key keeps its value: a token that is no flag adds no key.
C3_ArgumentOverlay ==
    pc = "returned" =>
        /\ output = Some(Nil)
        /\ IF withArgs.nil THEN configMap = input.v
           ELSE LET args == withArgs.v
                IN  /\ args = <<>> => configMap = input.v
                    /\ DOMAIN configMap =
                         DOMAIN input.v
                           \cup {FlagKey(args[i]) : i \in {j \in 1..Len(args) : IsFlagToken(args[j])}}
                    /\ \A k \in DOMAIN configMap :
                         IF FlagIndexes(args, k) # {}
                         THEN configMap[k] = FlagStores(args, Last(FlagIndexes(args, k)))
                         ELSE configMap[k] = input.v[k]

\* A flag with a value, then a flag followed by a flag, which ends the list.
C3_Witness ==
    /\ pc = "returned"
    /\ withArgs = Some(<<Flag(sPort), s3000, Flag(FoldName(sName))>>)
    /\ configMap[sPort] = IntV(3000)
    /\ configMap[sName] = BoolV(TRUE)

HasEq(entry) == \E i \in 1..Len(entry) : entry[i] = "="

FirstEq(entry) ==
    CHOOSE i \in 1..Len(entry) : entry[i] = "=" /\ \A j \in 1..(i - 1) : entry[j] # "="

EntryName(entry) == SubSeq(entry, 1, FirstEq(entry) - 1)

EntryValue(entry) == SubSeq(entry, FirstEq(entry) + 1, Len(entry))

EntryIndexes(env, k) ==
    {i \in 1..Len(env) : HasEq(env[i]) /\ ToLower(EntryName(env[i])) = k}

\* C4 (SpecEnv): loadEnvVars returns nil; an unset list leaves the map as it
\* was; otherwise the keys of the map are the keys it had and lower(NAME) for
\* every entry holding "=", NAME being the text before the first "=" with its
\* underscores and hyphens kept; such a key holds infer(VALUE) of its last
\* entry, VALUE being everything after the first "="; every other key keeps its
\* value, so an entry without "=" adds nothing.
C4_EnvVarOverlay ==
    pc = "returned" =>
        /\ output = Some(Nil)
        /\ IF withEnvVars.nil THEN configMap = input.v
           ELSE LET env == withEnvVars.v
                IN  /\ DOMAIN configMap =
                         DOMAIN input.v
                           \cup {ToLower(EntryName(env[i])) : i \in {j \in 1..Len(env) : HasEq(env[j])}}
                    /\ \A k \in DOMAIN configMap :
                         IF EntryIndexes(env, k) # {}
                         THEN configMap[k] = parseValue(EntryValue(env[Last(EntryIndexes(env, k))]))
                         ELSE configMap[k] = input.v[k]

\* An entry without "=", an upper-case name and a name with an underscore whose
\* value holds "=".
C4_Witness ==
    /\ pc = "returned"
    /\ withEnvVars = Some(<<sProg, Entry(FoldName(sPort), s9000),
                            Entry(<<"D", "b", "_", "U">>, <<"a", "=", "b">>)>>)
    /\ input.v = EmptyMap
    /\ DOMAIN configMap = {sPort, <<"d", "b", "_", "u">>}
    /\ configMap[sPort] = IntV(9000)
    /\ configMap[<<"d", "b", "_", "u">>] = StrV(<<"a", "=", "b">>)

Capitalised(w) == [i \in 1..Len(w) |-> IF i = 1 THEN UpperChar(w[i]) ELSE LowerChar(w[i])]

\* The spellings of a word strconv.ParseBool knows: lower, upper, capitalised.
KnownSpellings(w) == {ToLower(w), FoldName(w), Capitalised(w)}

\* C5 as claimed (SpecInfer): every spelling of true or false, in any mix of
\* upper- and lower-case letters, is inferred as that boolean.
C5_AnyCaseIsBoolean ==
    pc = "returned" /\ ToLower(input.v) \in {sTrue, sFalse} =>
        output.v = BoolV(ToLower(input.v) = sTrue)

\* C5 as amended (SpecInfer): of the spellings of true and false, the
\* all-lower-case, the all-upper-case and the capitalised one are inferred as
\* that boolean; every other mix of letter case comes back as the unchanged
\* string.
C5_KnownCaseIsBoolean ==
    pc = "returned" /\ ToLower(input.v) \in {sTrue, sFalse} =>
        IF input.v \in KnownSpellings(input.v)
        THEN output.v = BoolV(ToLower(input.v) = sTrue)
        ELSE output.v = StrV(input.v)

C5_Witness ==
    /\ pc = "returned"
    /\ input.v = <<"t", "R", "U", "E">>
    /\ output.v = StrV(input.v)

-----------------------------------------------------------------------------
(* Properties of Load                                                      *)

\* The two paths the running Load reads (configDir is resolved).
BasePath == Join(configDir.v, sConfigJson)
EnvPath == Join(configDir.v, EnvFileName(withEnvironment.v))

Present(pth) == pth \in DOMAIN fs
IsFile(pth) == Present(pth) /\ fs[pth].kind = "file"
DocKind(pth) == fs[pth].doc.j
IsObject(pth) == IsFile(pth) /\ DocKind(pth) = "object"

MemberIndexes(pth, k) ==
    {i \in 1..Len(fs[pth].doc.members) : fs[pth].doc.members[i].key = k}

FileSupplies(pth, k) == IsObject(pth) /\ MemberIndexes(pth, k) # {}

FileValue(pth, k) == DecodeAny(fs[pth].doc.members[Last(MemberIndexes(pth, k))].val)

ArgsList == IF withArgs.nil THEN <<>> ELSE withArgs.v
EnvList == IF withEnvVars.nil THEN <<>> ELSE withEnvVars.v

ArgsSupply(k) == FlagIndexes(ArgsList, k) # {}
EnvVarsSupply(k) == EntryIndexes(EnvList, k) # {}
EnvFileSupplies(k) == ~withEnvironment.nil /\ FileSupplies(EnvPath, k)
BaseFileSupplies(k) == FileSupplies(BasePath, k)

Supplied(k) == ArgsSupply(k) \/ EnvVarsSupply(k) \/ EnvFileSupplies(k) \/ BaseFileSupplies(k)

\* The value of key k from the highest-priority source that supplies it.
TopValue(k) ==
    IF ArgsSupply(k) THEN FlagStores(ArgsList, Last(FlagIndexes(ArgsList, k)))
    ELSE IF EnvVarsSupply(k) THEN parseValue(EntryValue(EnvList[Last(EntryIndexes(EnvList, k))]))
    ELSE IF EnvFileSupplies(k) THEN FileValue(EnvPath, k)
    ELSE FileValue(BasePath, k)

\* The value a field of the given type shows for a number, string or boolean
\* that fits it.
AsField(type, v) ==
    CASE type = "int" /\ v.t = "float" -> IntV(v.m * Pow10(v.e))
      [] type = "float64" /\ v.t = "int" -> FloatV(v.i, 0)
      [] OTHER -> v

\* C1 (Spec): when Load succeeds, every lower-case key that some source
\* supplies holds, in the map and in the field of the result it maps to, the
\* value of the highest-priority source supplying that spelling, in the order
\* argument > environment variable > config.<name>.json > config.json.
C1_PriorityOrder ==
    pc = "done" /\ err.nil =>
        \A k \in DOMAIN configMap :
            k = ToLower(k) /\ Supplied(k) =>
                /\ configMap[k] = TopValue(k)
                /\ \A f \in 1..Len(Fields) :
                     ToLower(Fields[f].tag) = k =>
                        result.v[Fields[f].name] = AsField(Fields[f].type, TopValue(k))

\* Base file port 8080, environment file port 8090, PORT=9000 and --port 3000.
C1_Witness ==
    /\ pc = "done"
    /\ err.nil
    /\ ArgsSupply(sPort) /\ EnvVarsSupply(sPort) /\ EnvFileSupplies(sPort)
    /\ BaseFileSupplies(sPort)
    /\ FileValue(BasePath, sPort) = FloatV(8080, 0)
    /\ FileValue(EnvPath, sPort) = FloatV(8090, 0)
    /\ result.v.Port = IntV(3000)

\* The map config.json alone gives (empty when it is absent or holds null).
BaseMap == IF IsObject(BasePath) THEN MembersToMap(fs[BasePath].doc.members, 1, EmptyMap)
           ELSE EmptyMap

NoEnvVars == withEnvVars.nil \/ withEnvVars.v = <<>>
NoArgs == withArgs.nil \/ withArgs.v = <<>>

\* C6 (Spec): a missing file is no error and changes nothing: after the base
\* stage with config.json missing the map is still empty, after the
\* environment stage with config.<name>.json missing the map is what
\* config.json alone gave, and no error of a file stage comes from a missing
\* file; with both files missing (the directory existing or not), no
\* environment variables and no arguments, Load succeeds with the zero value.
C6_MissingFileIsNoError ==
    /\ pc = "envfile" /\ ~Present(BasePath) => configMap = EmptyMap /\ err.nil
    /\ pc = "envvars" /\ ~withEnvironment.nil /\ ~Present(EnvPath) =>
          configMap = BaseMap /\ err.nil
    /\ pc = "done" /\ ~err.nil /\ err.stage = "base config" => Present(BasePath)
    /\ pc = "done" /\ ~err.nil /\ err.stage = "env config" => Present(EnvPath)
    /\ (/\ pc = "done"
        /\ ~configDir.nil
        /\ ~Present(BasePath)
        /\ withEnvironment.nil \/ ~Present(EnvPath)
        /\ NoEnvVars
        /\ NoArgs)
          => err.nil /\ result = Some(ZeroValue)

\* The directory that does not exist, an environment named, nothing configured.
C6_Witness ==
    /\ pc = "done"
    /\ configDir = Some(MissingDir)
    /\ ~withEnvironment.nil
    /\ reads = <<BasePath, EnvPath>>
    /\ NoEnvVars /\ NoArgs
    /\ result = Some(ZeroValue)

\* The directory Load resolves when os.Executable succeeds.
ResolvedDir == IF withConfigDirectory.nil THEN ExeDir ELSE withConfigDirectory.v

IsMalformed(pth) == IsFile(pth) /\ DocKind(pth) = "malformed"

\* C7 (Spec): when config.json holds malformed JSON, or an environment is named
\* and config.<name>.json holds malformed JSON, Load returns an error and no
\* result whatever the other sources hold; a malformed config.json is reported
\* as the syntax error of the base stage.
C7_MalformedFileAborts ==
    pc = "done" =>
        /\ (\/ IsMalformed(Join(ResolvedDir, sConfigJson))
            \/ /\ ~withEnvironment.nil
               /\ IsMalformed(Join(ResolvedDir, EnvFileName(withEnvironment.v))))
              => ~err.nil /\ result.nil
        /\ ~configDir.nil /\ IsMalformed(BasePath) => err = Wrap("base config", "syntax")

\* A good config.json, a malformed config.dev.json, arguments set.
C7_Witness ==
    /\ pc = "done"
    /\ ~configDir.nil
    /\ IsObject(BasePath)
    /\ ~withEnvironment.nil /\ IsMalformed(EnvPath)
    /\ ~NoArgs
    /\ err = Wrap("env config", "syntax")
    /\ result.nil

NonObjectKinds == {"array", "string", "number", "bool", "null"}

\* C8 as claimed (Spec): a config.json whose valid JSON is no object (an array
\* or any scalar) makes the base stage fail, and Load with it.
C8_NonObjectIsError ==
    pc = "done" /\ ~configDir.nil /\ IsFile(BasePath) /\ DocKind(BasePath) \in NonObjectKinds
        => ~err.nil /\ err.stage = "base config" /\ result.nil

\* C8 as amended (Spec): a config file whose top-level value is an array, a
\* string, a number or a boolean is a type error of its stage: nothing is
\* merged and Load fails; a file that holds null is read without error and
\* merges nothing.
C8_NonObjectExceptNullIsError ==
    /\ (/\ pc = "done" /\ ~configDir.nil /\ IsFile(BasePath)
        /\ DocKind(BasePath) \in NonObjectKinds \ {"null"})
          => err = Wrap("base config", "type") /\ result.nil /\ configMap = EmptyMap
    /\ (/\ pc = "done" /\ ~configDir.nil /\ ~withEnvironment.nil /\ IsFile(EnvPath)
        /\ DocKind(EnvPath) \in NonObjectKinds \ {"null"}
        /\ ~(~err.nil /\ err.stage = "base config"))
          => err = Wrap("env config", "type") /\ result.nil /\ configMap = BaseMap
    /\ pc = "envfile" /\ IsFile(BasePath) /\ DocKind(BasePath) = "null"
          => configMap = EmptyMap /\ err.nil
    /\ (/\ pc = "envvars" /\ ~withEnvironment.nil /\ IsFile(EnvPath)
        /\ DocKind(EnvPath) = "null")
          => configMap = BaseMap /\ err.nil
    /\ pc = "done" /\ ~configDir.nil /\ IsFile(BasePath) /\ DocKind(BasePath) = "null"
          => ~(~err.nil /\ err.stage = "base config")
    /\ (/\ pc = "done" /\ ~configDir.nil /\ ~withEnvironment.nil /\ IsFile(EnvPath)
        /\ DocKind(EnvPath) = "null")
          => ~(~err.nil /\ err.stage = "env config")

\* config.json holds null and Load succeeds with the zero value.
C8_Witness ==
    /\ pc = "done"
    /\ ~configDir.nil
    /\ IsFile(BasePath) /\ DocKind(BasePath) = "null"
    /\ err.nil
    /\ result = Some(ZeroValue)

\* C9 (Spec): Load returns either a result and a nil error or no result and an
\* error, whichever stage fails.
C9_ResultXorError ==
    pc = "done" => (result.nil <=> ~err.nil)

\* An error of the projection: no result comes with it.
C9_Witness ==
    /\ pc = "done"
    /\ ~err.nil /\ err.stage = "unmarshal config"
    /\ result.nil

TagOf(name) == FieldOf(name).tag

DiffersByMoreThanCase(n) ==
    \A f \in 1..Len(Fields) : ToLower(Fields[f].tag) # ToLower(n)

\* C10 as claimed (Spec): with no config file present, a lone environment entry
\* NAME=v or a lone argument pair --name v whose name equals the tag
\* databaseURL up to letter case makes Load succeed with v in DatabaseURL; a
\* name that differs from every tag by more than letter case leaves every field
\* at the value it had and causes no error.
C10_CaseInsensitiveNames ==
    (/\ pc = "done" /\ ~configDir.nil
     /\ ~Present(BasePath) /\ (withEnvironment.nil \/ ~Present(EnvPath)))
      =>
        /\ (NoArgs /\ Len(EnvList) = 1 /\ HasEq(EnvList[1])) =>
              LET n == EntryName(EnvList[1])
                  v == EntryValue(EnvList[1])
              IN  /\ ToLower(n) = ToLower(TagOf("DatabaseURL"))
                        => err.nil /\ result.v.DatabaseURL = StrV(v)
                  /\ DiffersByMoreThanCase(n) => err.nil /\ result = Some(ZeroValue)
        /\ (NoEnvVars /\ Len(ArgsList) = 2 /\ IsFlagToken(ArgsList[1])
            /\ ~IsFlagToken(ArgsList[2])) =>
              LET n == SubSeq(ArgsList[1], 3, Len(ArgsList[1]))
                  v == ArgsList[2]
              IN  /\ ToLower(n) = ToLower(TagOf("DatabaseURL"))
                        => err.nil /\ result.v.DatabaseURL = StrV(v)
                  /\ DiffersByMoreThanCase(n) => err.nil /\ result = Some(ZeroValue)

-----------------------------------------------------------------------------
(* Properties of the projection                                            *)

\* The keys of the overlay that equal the tag of field f when letter case is
\* ignored.
KeysOf(f) == {k \in DOMAIN configMap : ToLower(k) = ToLower(Fields[f].tag)}

\* The key of S that json.Marshal writes last.
LastKey(S) == CHOOSE k \in S : \A o \in S \ {k} : StrLess(o, k)

\* C11 as claimed (Spec): the projector compares keys with tags exactly, so
\* after a successful Load every field holds the value of the overlay key that
\* is its tag letter for letter, and its zero value when there is no such key.
C11_ExactKeyMatch ==
    pc = "done" /\ err.nil =>
        \A f \in 1..Len(Fields) :
            result.v[Fields[f].name] =
                IF Fields[f].tag \in DOMAIN configMap
                THEN AsField(Fields[f].type, configMap[Fields[f].tag])
                ELSE ZeroOf(Fields[f].type)

\* C11 as amended (Spec): the projector matches keys with tags ignoring letter
\* case, so after a successful Load every field holds the value of the last
\* written overlay key that equals its tag up to letter case (a lower-cased
\* environment variable or argument name included), and its zero value when
\* there is no such key.
C11_FoldedKeyMatch ==
    pc = "done" /\ err.nil =>
        \A f \in 1..Len(Fields) :
            result.v[Fields[f].name] =
                IF KeysOf(f) = {} THEN ZeroOf(Fields[f].type)
                ELSE AsField(Fields[f].type, configMap[LastKey(KeysOf(f))])

\* The mixed-case tag databaseURL filled by an environment variable alone.
C11_Witness ==
    /\ pc = "done"
    /\ err.nil
    /\ sDatabaseURL \notin DOMAIN configMap
    /\ EnvVarsSupply(ToLower(sDatabaseURL))
    /\ ~ArgsSupply(ToLower(sDatabaseURL))
    /\ result.v.DatabaseURL = StrV(sDb)

\* A value whose kind the declared type of a field cannot hold.
Incompatible(type, v) ==
    IF v.t = "float" /\ ~IsFinite(v) THEN TRUE
    ELSE CASE type = "string"  -> v.t # "string"
           [] type = "bool"    -> v.t # "bool"
           [] type = "int"     -> v.t \in {"string", "bool"} \/ (v.t = "float" /\ v.e < 0)
           [] type = "float64" -> v.t \in {"string", "bool"}

HoldsIncompatible ==
    \E k \in DOMAIN configMap : \E f \in 1..Len(Fields) :
        /\ ToLower(Fields[f].tag) = ToLower(k)
        /\ Incompatible(Fields[f].type, configMap[k])

\* C12 (Spec): when the final overlay holds, under a key that maps to a field,
\* a value the declared type of the field cannot hold, unmarshalToType returns
\* an error and no result, and Load returns the error of the projection stage
\* with no result.
C12_IncompatibleValueFails ==
    /\ pc = "unmarshal" /\ HoldsIncompatible =>
          unmarshalToType(configMap).err # Nil /\ unmarshalToType(configMap).result.nil
    /\ pc = "done" /\ (err.nil \/ err.stage = "unmarshal config") /\ HoldsIncompatible =>
          ~err.nil /\ result.nil

\* The string "base" under port, from config.json, stops the projection.
C12_Witness ==
    /\ pc = "done"
    /\ sPort \in DOMAIN configMap
    /\ configMap[sPort] = StrV(sBase)
    /\ err = Wrap("unmarshal config", "type")
    /\ result.nil

-----------------------------------------------------------------------------
(* Properties of the stages of Load                                        *)

OverlayStages == {"base", "envfile", "envvars", "args", "unmarshal"}

\* The stage about to run supplies key k.
StageSupplies(k) ==
    CASE pc = "base"    -> BaseFileSupplies(k)
      [] pc = "envfile" -> EnvFileSupplies(k)
      [] pc = "envvars" -> EnvVarsSupply(k)
      [] pc = "args"    -> ArgsSupply(k)
      [] OTHER          -> FALSE

\* A step of a stage keeps every key and the value of every key the stage does
\* not supply.
StageKeepsOverlay ==
    pc \in OverlayStages =>
        /\ DOMAIN configMap \subseteq DOMAIN configMap'
        /\ \A k \in DOMAIN configMap :
              ~StageSupplies(k) => configMap'[k] = configMap[k]

\* C13 (Spec): every stage of Load keeps the keys the overlay had before it and
\* the value of every key it does not supply; after the two file stages a key
\* of config.json holds the value of config.<name>.json if that file has the
\* key, and the value of config.json otherwise.
C13_OverlayMonotone ==
    /\ [](pc = "envvars" =>
            \A k \in DOMAIN BaseMap :
                /\ k \in DOMAIN configMap
                /\ configMap[k] = IF EnvFileSupplies(k) THEN FileValue(EnvPath, k)
                                  ELSE BaseMap[k])
    /\ [][StageKeepsOverlay]_vars

\* Both files read: port is in both, databaseURL only in config.json.
C13_Witness ==
    /\ pc = "envvars"
    /\ BaseFileSupplies(sPort) /\ BaseFileSupplies(sDatabaseURL)
    /\ EnvFileSupplies(sPort) /\ ~EnvFileSupplies(sDatabaseURL)
    /\ configMap[sPort] = FloatV(8090, 0)
    /\ configMap[sDatabaseURL] = StrV(sBase)

-----------------------------------------------------------------------------
(* Properties of the setters                                               *)

SetterStep == pc = "idle" /\ pc' = "idle"

\* The effect of one step on the four inputs, by the call on record.
SettersFrame ==
    /\ SetterStep /\ input.v.op = "New" =>
          withArgs' = None /\ withEnvVars' = None
              /\ withEnvironment' = None /\ withConfigDirectory' = None
    /\ SetterStep /\ input.v.op = "WithArgs" =>
          withArgs' = input.v.arg
              /\ UNCHANGED <<withEnvVars, withEnvironment, withConfigDirectory>>
    /\ SetterStep /\ input.v.op = "WithEnvVars" =>
          withEnvVars' = input.v.arg
              /\ UNCHANGED <<withArgs, withEnvironment, withConfigDirectory>>
    /\ SetterStep /\ input.v.op = "WithEnvironment" =>
          withEnvironment' = input.v.arg
              /\ UNCHANGED <<withArgs, withEnvVars, withConfigDirectory>>
    /\ SetterStep /\ input.v.op = "WithConfigDirectory" =>
          withConfigDirectory' = input.v.arg
              /\ UNCHANGED <<withArgs, withEnvVars, withEnvironment>>
    /\ ~SetterStep \/ input.v.op = "Load" => UNCHANGED Settings

\* C14 (SpecSetters): New leaves the four inputs unset; each setter, called on
\* a loader holding any earlier values, stores the value it is given in its own
\* input and leaves the other three as they are; no step of Load changes any
\* of the four.
C14_SettersFrame == [][SettersFrame]_vars

\* A Load has run to its end on a loader with all four inputs set, and they
\* are still set.
C14_Witness ==
    /\ input.v.op = "Load"
    /\ pc = "done"
    /\ ~withArgs.nil /\ withArgs.v # <<>>
    /\ ~withEnvVars.nil /\ withEnvVars.v # <<>>
    /\ ~withEnvironment.nil
    /\ ~withConfigDirectory.nil

\* The map config.<name>.json alone gives (empty when no environment is named,
\* the file is absent or it holds null).
EnvFileMap ==
    IF ~withEnvironment.nil /\ IsObject(EnvPath)
    THEN MembersToMap(fs[EnvPath].doc.members, 1, EmptyMap)
    ELSE EmptyMap

FilesMap == Merge(BaseMap, EnvFileMap)

ReadsOfFileStages ==
    IF withEnvironment.nil THEN <<BasePath>> ELSE <<BasePath, EnvPath>>

\* What has been read and applied at each position of Load.
StagePositions ==
    /\ Len(reads) <= 2
    /\ pc = "base" => reads = <<>> /\ configMap = EmptyMap
    /\ pc = "envfile" => reads = <<BasePath>> /\ configMap = BaseMap /\ err.nil
    /\ pc = "envvars" => reads = ReadsOfFileStages /\ configMap = FilesMap /\ err.nil
    /\ pc = "args" =>
          reads = ReadsOfFileStages /\ configMap = loadEnvVars(withEnvVars, FilesMap)
    /\ pc = "unmarshal" =>
          /\ reads = ReadsOfFileStages
          /\ configMap = loadArgs(withArgs, loadEnvVars(withEnvVars, FilesMap))
    /\ pc = "done" /\ ~err.nil /\ err.stage = "config directory" => reads = <<>>
    /\ pc = "done" /\ ~err.nil /\ err.stage = "base config" =>
          reads = <<BasePath>> /\ configMap = EmptyMap /\ result.nil
    /\ pc = "done" /\ ~err.nil /\ err.stage = "env config" =>
          /\ ~withEnvironment.nil
          /\ reads = <<BasePath, EnvPath>>
          /\ configMap = BaseMap
          /\ result.nil
    /\ pc = "done" /\ (err.nil \/ err.stage = "unmarshal config") =>
          reads = ReadsOfFileStages

\* The order of the steps of Load: each stage is followed by the next one or,
\* on its error, by the return; files are read in the two file stages only.
StageOrder ==
    /\ pc = "base" => pc' \in {"envfile", "done"}
    /\ pc = "envfile" => pc' \in {"envvars", "done"}
    /\ pc = "envvars" => pc' = "args"
    /\ pc = "args" => pc' = "unmarshal"
    /\ pc = "unmarshal" => pc' = "done"
    /\ pc \in {"base", "envfile"} => (pc' = "done" <=> ~err'.nil)
    /\ pc \in OverlayStages /\ ~err'.nil => pc' = "done"
    /\ pc \in OverlayStages /\ reads' # reads => pc \in {"base", "envfile"}
    /\ pc = "envfile" /\ withEnvironment.nil => reads' = reads

\* C15 (Spec): in one Load the base file is read first, the environment file
\* only when an environment is named and the base stage succeeded, the
\* environment variables are applied after both file stages, the arguments
\* after the environment variables and the projection last; at most two files
\* are read, and after the error of a stage nothing more is read or applied.
C15_StageOrdering == []StagePositions /\ [][StageOrder]_vars

\* The base stage fails: the environment file that exists is not read and the
\* environment variables and arguments that are set are not applied.
C15_Witness ==
    /\ pc = "done"
    /\ ~err.nil /\ err.stage = "base config"
    /\ ~withEnvironment.nil /\ Present(EnvPath)
    /\ ~NoEnvVars /\ ~NoArgs
    /\ reads = <<BasePath>>
    /\ configMap = EmptyMap

-----------------------------------------------------------------------------
(* Properties of the argument scan                                         *)

\* The scan as specified: a flag that takes the next token as its value
\* advances past that token.
RECURSIVE SpecifiedScan(_, _, _)
SpecifiedScan(args, i, m) ==
    IF i > Len(args) THEN m
    ELSE IF ~IsFlagToken(args[i]) THEN SpecifiedScan(args, i + 1, m)
    ELSE IF i < Len(args) /\ ~IsFlagToken(args[i + 1])
    THEN SpecifiedScan(args, i + 2, MapSet(m, FlagKey(args[i]), parseValue(args[i + 1])))
    ELSE SpecifiedScan(args, i + 1, MapSet(m, FlagKey(args[i]), BoolV(TRUE)))

\* The step of the code at flag i reads the text of token j: another text at
\* j, flag or not as before, changes what the step stores.
Consumes(args, i, j) ==
    /\ i # j
    /\ IsFlagToken(args[i])
    /\ ArgStep(args, i, EmptyMap) # ArgStep([args EXCEPT ![j] = @ \o <<"x">>], i, EmptyMap)

\* C16 (SpecArgs): for every argument list the scan of the code, which visits
\* every index and looks ahead one token, leaves the map the specified scan
\* leaves; a token that is a flag is the value of no flag, and a token that is
\* no flag is the value of at most the flag right before it.
C16_ScanEquivalence ==
    pc = "returned" /\ ~withArgs.nil =>
        /\ configMap = SpecifiedScan(withArgs.v, 1, input.v)
        /\ \A i, j \in 1..Len(withArgs.v) :
              Consumes(withArgs.v, i, j) => ~IsFlagToken(withArgs.v[j]) /\ i = j - 1

\* --port -1 prog: the value is taken once and the bare token after it is inert.
C16_Witness ==
    /\ pc = "returned"
    /\ withArgs = Some(<<Flag(sPort), <<"-", "1">>, sProg>>)
    /\ configMap = MapSet(input.v, sPort, IntV(-1))

-----------------------------------------------------------------------------
(* Properties of the priority across spellings                             *)

\* The members of the file whose key equals the tag of field f up to letter
\* case.
FieldMembers(pth, f) ==
    {i \in 1..Len(fs[pth].doc.members) :
        ToLower(fs[pth].doc.members[i].key) = ToLower(Fields[f].tag)}

FileSuppliesField(pth, f) == IsObject(pth) /\ FieldMembers(pth, f) # {}

FileFieldValue(pth, f) == DecodeAny(fs[pth].doc.members[Last(FieldMembers(pth, f))].val)

\* The value for field f from the highest-priority source that supplies a key
\* equal to its tag up to letter case.
TopFieldValue(f) ==
    LET k == ToLower(Fields[f].tag)
    IN  IF ArgsSupply(k) THEN FlagStores(ArgsList, Last(FlagIndexes(ArgsList, k)))
        ELSE IF EnvVarsSupply(k)
        THEN parseValue(EntryValue(EnvList[Last(EntryIndexes(EnvList, k))]))
        ELSE IF ~withEnvironment.nil /\ FileSuppliesField(EnvPath, f)
        THEN FileFieldValue(EnvPath, f)
        ELSE FileFieldValue(BasePath, f)

FieldSupplied(f) ==
    \/ ArgsSupply(ToLower(Fields[f].tag))
    \/ EnvVarsSupply(ToLower(Fields[f].tag))
    \/ ~withEnvironment.nil /\ FileSuppliesField(EnvPath, f)
    \/ FileSuppliesField(BasePath, f)

\* C17 as claimed (Spec): after a successful Load every field that some source
\* supplies, under any spelling of its tag that differs in letter case only,
\* holds the value of the highest-priority source that supplies it (argument >
\* environment variable > config.<name>.json > config.json).
C17_PriorityAcrossSpellings ==
    pc = "done" /\ err.nil =>
        \A f \in 1..Len(Fields) :
            FieldSupplied(f) =>
                result.v[Fields[f].name] = AsField(Fields[f].type, TopFieldValue(f))

\* The int-typed fields whose tag equals the name n up to letter case.
IntFieldsNamed(n) ==
    {f \in 1..Len(Fields) : Fields[f].type = "int" /\ ToLower(Fields[f].tag) = ToLower(n)}

\* Load has succeeded and every int field named n holds the integer s denotes.
IntegerReaches(n, s) ==
    \A f \in IntFieldsNamed(n) :
        err.nil /\ result.v[Fields[f].name] = IntV(Atoi(s).i)

\* C18 as claimed (Spec): with no config file present, a lone environment entry
\* NAME=s or a lone argument pair --name s, where s is a signed base-10 integer
\* string ("0" and "1" included) and the name matches an int field, makes Load
\* succeed with the integer s denotes in that field.
C18_IntegerStringsReachIntFields ==
    (/\ pc = "done" /\ ~configDir.nil
     /\ ~Present(BasePath) /\ (withEnvironment.nil \/ ~Present(EnvPath)))
      =>
        /\ (/\ NoArgs /\ Len(EnvList) = 1 /\ HasEq(EnvList[1])
            /\ Atoi(EntryValue(EnvList[1])).ok)
              => IntegerReaches(EntryName(EnvList[1]), EntryValue(EnvList[1]))
        /\ (/\ NoEnvVars /\ Len(ArgsList) = 2 /\ IsFlagToken(ArgsList[1])
            /\ ~IsFlagToken(ArgsList[2]) /\ Atoi(ArgsList[2]).ok)
              => IntegerReaches(SubSeq(ArgsList[1], 3, Len(ArgsList[1])), ArgsList[2])

====
